---- MODULE Spec2Model ----
(***************************************************************************)
(* A model of gpa_calculator (src/gpa_calculator/utils.py, calculator.py). *)
(*                                                                         *)
(* A pandas DataFrame is a sequence of entries [idx, row]: idx is the      *)
(* entry's index label, row maps each column name of COLUMNS_FORMAT to a   *)
(* cell.  A cell is NaN, Num(n) or Str(chars); a Python str is the tuple   *)
(* of its characters, so that str.find is computed and not assumed.        *)
(* DataFrames are objects: `frames` is the heap, a frame is named by its   *)
(* reference, and the in-place operations (drop(inplace=True),             *)
(* query(inplace=True), .loc assignment) rewrite the frame they are given. *)
(***************************************************************************)
EXTENDS Integers, Sequences, FiniteSets, TLC

VARIABLES
    content,                 \* the table _load_file returned (open_transcript_file)
    frames,                  \* heap of DataFrames: reference -> table
    raised,                  \* the uncaught exception that ended the program, or NoError
    pc,                      \* position of main / of the caller
    mode,                    \* calculating_gpa's argument / main's local
    semester_name,           \* Optional str: None or Some(chars)
    exemption_subjects,      \* the exemption list of the session / of the call
    aliased,                 \* TRUE when exemption_subjects IS default_exemption_list
    default_exemption_list,  \* the module-level list of exemption_default
    exemption_file,          \* exemption.json on disk
    gpa_score                \* the last value calculating_gpa returned

vars == <<content, frames, raised, pc, mode, semester_name, exemption_subjects,
          aliased, default_exemption_list, exemption_file, gpa_score>>

(***************************************************************************)
(* Bounds of the model.                                                    *)
(***************************************************************************)
MaxRows == 3
MaxExempt == 2
MaxRawRows == 4
MaxListLen == 2

(***************************************************************************)
(* Cells and Python values.                                                *)
(***************************************************************************)
NaN == <<"nan">>
Num(n) == <<"num", n>>
Str(s) == <<"str", s>>
isna(c) == c = NaN
IsStr(c) == c[1] = "str"

None == <<>>
Some(s) == <<s>>
Truthy(opt) == opt # None /\ opt[1] # <<>>

NoError == "none"

COLUMNS_FORMAT ==
    <<"No", "Term", "Semester", "Subject Code", "prerequisite",
      "Replaced Subject", "Subject Name", "Credit", "Grade", "Status">>

Columns == {COLUMNS_FORMAT[i] : i \in 1..Len(COLUMNS_FORMAT)}

(***************************************************************************)
(* String literals of the source and of the transcripts, as characters.    *)
(***************************************************************************)
Studying == <<"S", "t", "u", "d", "y", "i", "n", "g">>
NotStarted == <<"N", "o", "t", " ", "s", "t", "a", "r", "t", "e", "d">>
Passed == <<"P", "a", "s", "s", "e", "d">>
Fall2023 == <<"F", "a", "l", "l", "2", "0", "2", "3">>
Fall2024 == <<"F", "a", "l", "l", "2", "0", "2", "4">>
Spring2024 == <<"S", "p", "r", "i", "n", "g", "2", "0", "2", "4">>
CSC101 == <<"C", "S", "C", "1", "0", "1">>
CSC102 == <<"C", "S", "C", "1", "0", "2">>
MAT101 == <<"M", "A", "T", "1", "0", "1">>
MAT102 == <<"M", "A", "T", "1", "0", "2">>
PMAT10 == <<"P", "M", "A", "T", "1", "0">>
OJT202 == <<"O", "J", "T", "2", "0", "2">>
MAT == <<"M", "A", "T">>
CSC == <<"C", "S", "C">>
CourseName == <<"n", "a", "m", "e">>

(***************************************************************************)
(* DataFrame primitives.                                                   *)
(***************************************************************************)
Labels(tbl) == {tbl[k].idx : k \in 1..Len(tbl)}

\* DataFrame.drop(labels, axis=0): the entries whose label is not dropped.
Drop(tbl, labels) ==
    LET keep(e) == e.idx \notin labels IN SelectSeq(tbl, keep)

\* str.find(sub): the lowest 0-based offset at which sub occurs, or -1.
OccursAt(s, sub, i) ==
    /\ i + Len(sub) <= Len(s)
    /\ \A j \in 1..Len(sub) : s[i + j] = sub[j]

StrFind(s, sub) ==
    IF \E i \in 0..Len(s) : OccursAt(s, sub, i)
    THEN CHOOSE i \in 0..Len(s) :
            /\ OccursAt(s, sub, i)
            /\ \A k \in 0..(i - 1) : ~OccursAt(s, sub, k)
    ELSE -1

\* Mutant of CodeMatches: the prefix is looked for at the start of the code only.
CodeMatchesAtStart(cell, subject) ==
    IF IsStr(cell) THEN StrFind(cell[2], subject) = 0 ELSE FALSE

\* Series.str.find(subject) > -1 on one cell: NaN stays NaN and compares False.
CodeMatches(cell, subject) ==
    IF IsStr(cell) THEN StrFind(cell[2], subject) > -1 ELSE FALSE

\* One pass of the loop of lines 429-431.
DropSubject(tbl, subject) ==
    LET indexes == {tbl[k].idx : k \in {j \in 1..Len(tbl) :
                        CodeMatches(tbl[j].row["Subject Code"], subject)}}
    IN  Drop(tbl, indexes)

RECURSIVE DropExemptions(_, _)
DropExemptions(tbl, exemption_list) ==
    IF exemption_list = <<>> THEN tbl
    ELSE DropExemptions(DropSubject(tbl, Head(exemption_list)), Tail(exemption_list))

\* query('Semester == @semester_name', inplace=True)
SemesterEquals(e, name) == e.row["Semester"] = Str(name)

QuerySemester(tbl, name) ==
    LET keep(e) == SemesterEquals(e, name) IN SelectSeq(tbl, keep)

\* Mutant of StatusCounts: 'Not started' is not tested.
StatusCountsUnlessStudying(e) == e.row["Status"] # Str(Studying)

\* query('Status != @studying and Status != @not_start', inplace=True)
StatusCounts(e) ==
    /\ e.row["Status"] # Str(Studying)
    /\ e.row["Status"] # Str(NotStarted)

QueryStatus(tbl) ==
    LET keep(e) == StatusCounts(e) IN SelectSeq(tbl, keep)

\* The number in a cell (Credit and Grade are numeric after _unify_n_fillna).
Val(c) == c[2]

RECURSIVE SumWeighted(_)
SumWeighted(tbl) ==
    IF tbl = <<>> THEN 0
    ELSE Val(Head(tbl).row["Grade"]) * Val(Head(tbl).row["Credit"]) + SumWeighted(Tail(tbl))

\* Mutant of SumCredit: the records are counted, their credits not added.
SumCreditAsCount(tbl) == Len(tbl)

RECURSIVE SumCredit(_)
SumCredit(tbl) ==
    IF tbl = <<>> THEN 0
    ELSE Val(Head(tbl).row["Credit"]) + SumCredit(Tail(tbl))

(***************************************************************************)
(* Return values of calculating_gpa: None, the int 0, or the float         *)
(* num / den.  numpy's division by a zero total gives nan (0/0) or inf     *)
(* with a RuntimeWarning; no exception is raised.                          *)
(***************************************************************************)
RetNone == [kind |-> "None", num |-> 0, den |-> 0]
RetZero == [kind |-> "zero", num |-> 0, den |-> 0]
NotCalled == [kind |-> "not called", num |-> 0, den |-> 0]

\* gpa_score = total_weighted_grades / total_credits (line 449)
Divide(num, den) ==
    IF den # 0 THEN [kind |-> "float", num |-> num, den |-> den]
    ELSE IF num = 0 THEN [kind |-> "nan", num |-> num, den |-> den]
    ELSE [kind |-> "inf", num |-> num, den |-> den]

\* Mutant of DataFrameCopy: the frame is bound, not copied.
DataFrameAlias(fr, src) == [ref |-> src, frames |-> fr]

\* transcript_data = transcript_data_orig.copy(): a new frame, a deep copy.
DataFrameCopy(fr, src) ==
    [ref |-> "transcript_data", frames |-> [fr EXCEPT !["transcript_data"] = fr[src]]]

\* if mode == "one semester" and semester_name (line 433)
FiltersSemester(m, name) == m = "one semester" /\ Truthy(name)

\* Mutant of MissingSemester: the elif tests the other mode.
MissingSemesterInOverall(m, name) == m = "overall" /\ name = None

\* elif mode == "one semester" and semester_name is None (line 435)
MissingSemester(m, name) == m = "one semester" /\ name = None

(***************************************************************************)
(* calculating_gpa(transcript_data_orig, mode, exemption_list,             *)
(* semester_name): the heap after the call and the value returned.  The    *)
(* local frame transcript_data is left on the heap as the call left it.    *)
(***************************************************************************)
\* Lines 438-450, on the frame td of heap f.
StatusAndScore(f, td) ==
    LET g == [f EXCEPT ![td] = QueryStatus(@)]
    IN  [frames |-> g,
         ret |-> IF Len(g[td]) = 0 THEN RetZero
                 ELSE Divide(SumWeighted(g[td]), SumCredit(g[td]))]

calculating_gpa(fr, orig, m, exemption_list, name) ==
    LET c == DataFrameCopy(fr, orig)
        td == c.ref
        f1 == [c.frames EXCEPT ![td] = DropExemptions(@, exemption_list)]
    IN  IF FiltersSemester(m, name)
        THEN StatusAndScore([f1 EXCEPT ![td] = QuerySemester(@, name[1])], td)
        ELSE IF MissingSemester(m, name)
        THEN [frames |-> f1, ret |-> RetNone]
        ELSE StatusAndScore(f1, td)

(***************************************************************************)
(* Transcripts as open_transcript_file returns them: Credit and Grade are  *)
(* numbers in every row.                                                   *)
(***************************************************************************)
MkRow(sem, code, credit, grade, status) ==
    "No" :> Num(1) @@ "Term" :> Num(1) @@ "Semester" :> Str(sem) @@
    "Subject Code" :> Str(code) @@ "prerequisite" :> NaN @@
    "Replaced Subject" :> NaN @@ "Subject Name" :> Str(CourseName) @@
    "Credit" :> Num(credit) @@ "Grade" :> Num(grade) @@ "Status" :> Str(status)

RecordPool ==
    { MkRow(Fall2023, CSC101, 3, 4, Passed),
      MkRow(Spring2024, MAT101, 3, 3, Passed),
      MkRow(Fall2024, PMAT10, 3, 2, Passed),
      MkRow(Fall2023, CSC102, 3, 1, Studying),
      MkRow(Fall2024, MAT102, 3, 0, NotStarted),
      MkRow(Fall2023, OJT202, 0, 4, Passed) }

\* A freshly read table: a RangeIndex 0..n-1 over the rows.
TableOf(rows) == [k \in 1..Len(rows) |-> [idx |-> k - 1, row |-> rows[k]]]

SeqsUpTo(S, n) == UNION {[1..k -> S] : k \in 0..n}

Transcripts == {TableOf(rows) : rows \in SeqsUpTo(RecordPool, MaxRows)}

Modes == {"overall", "one semester"}
ExemptCodes == {<<>>, MAT}
ExemptionLists == SeqsUpTo(ExemptCodes, MaxExempt)
SemesterArgs == {None, Some(<<>>), Some(Fall2023), Some(Fall2024)}

absent == [state |-> "absent", list |-> <<>>]
BuiltinDefault == <<MAT>>

(***************************************************************************)
(* Spec: calculating_gpa called, any number of times, on one transcript    *)
(* with any arguments.                                                     *)
(***************************************************************************)
Init ==
    /\ content = <<>>
    /\ \E t \in Transcripts : frames = [transcript |-> t, transcript_data |-> <<>>]
    /\ raised = NoError
    /\ pc = "call"
    /\ mode = "overall"
    /\ semester_name = None
    /\ exemption_subjects = <<>>
    /\ aliased = FALSE
    /\ default_exemption_list = BuiltinDefault
    /\ exemption_file = absent
    /\ gpa_score = NotCalled

Call(m, exemption_list, name) ==
    /\ pc = "call"
    /\ LET r == calculating_gpa(frames, "transcript", m, exemption_list, name)
       IN  /\ frames' = r.frames
           /\ gpa_score' = r.ret
    /\ mode' = m
    /\ exemption_subjects' = exemption_list
    /\ semester_name' = name
    /\ pc' = "returned"
    /\ UNCHANGED <<content, raised, aliased, default_exemption_list, exemption_file>>

\* The caller lets go of the result and of the call's locals and calls again.
CalculateAgain ==
    /\ pc = "returned"
    /\ pc' = "call"
    /\ frames' = [frames EXCEPT !["transcript_data"] = <<>>]
    /\ mode' = "overall"
    /\ semester_name' = None
    /\ exemption_subjects' = <<>>
    /\ gpa_score' = NotCalled
    /\ UNCHANGED <<content, raised, aliased, default_exemption_list, exemption_file>>

Next ==
    \/ \E m \in Modes, ex \in ExemptionLists, name \in SemesterArgs : Call(m, ex, name)
    \/ CalculateAgain

Spec == Init /\ [][Next]_vars

(***************************************************************************)
(* _unify_n_fillna(content).  An Index is the sequence of its labels, in   *)
(* table order.  DataFrame.drop raises KeyError when a label it is given   *)
(* is not in the frame; so does .loc with a list of labels (pandas 1.0 and *)
(* later).  Nothing in open_transcript_file or main catches it.            *)
(***************************************************************************)
Range(seq) == {seq[k] : k \in 1..Len(seq)}

\* content[content.<col>.isna()].index
NaIndex(tbl, col) ==
    LET blank(e) == isna(e.row[col])
        sel == SelectSeq(tbl, blank)
    IN  [k \in 1..Len(sel) |-> sel[k].idx]

\* space_idx += 1
Shift(space_idx) == [k \in 1..Len(space_idx) |-> space_idx[k] + 1]

\* for i in range(n): content.drop(space_idx, axis=0, inplace=True); space_idx += 1
RECURSIVE DropLoop(_, _, _)
DropLoop(tbl, space_idx, n) ==
    IF n = 0 THEN [tbl |-> tbl, space_idx |-> space_idx, err |-> NoError]
    ELSE IF ~(Range(space_idx) \subseteq Labels(tbl))
    THEN [tbl |-> tbl, space_idx |-> space_idx, err |-> "KeyError"]
    ELSE DropLoop(Drop(tbl, Range(space_idx)), Shift(space_idx), n - 1)

\* Mutant of DropSeparators: the loop runs once.
DropSeparatorOnce(tbl, space_idx) == DropLoop(tbl, space_idx, 1)

\* Lines 125-127: the loop runs range(2).
DropSeparators(tbl, space_idx) == DropLoop(tbl, space_idx, 2)

source == <<"Subject Name", "Replaced Subject", "prerequisite", "Subject Code", "Semester", "Term">>
dest == <<"Status", "Grade", "Credit", "Subject Name", "Subject Code", "Semester">>

\* content.loc[sub_idx, d] = content.loc[sub_idx, s]
AssignColumn(tbl, sub_idx, d, s) ==
    [k \in 1..Len(tbl) |->
        IF tbl[k].idx \in sub_idx
        THEN [tbl[k] EXCEPT !.row = [@ EXCEPT ![d] = tbl[k].row[s]]]
        ELSE tbl[k]]

\* content.loc[idx, col] = value
SetColumn(tbl, labels, col, value) ==
    [k \in 1..Len(tbl) |->
        IF tbl[k].idx \in labels
        THEN [tbl[k] EXCEPT !.row = [@ EXCEPT ![col] = value]]
        ELSE tbl[k]]

\* Mutant of RemapFrom: the pairs are assigned last to first.
RECURSIVE RemapBackwards(_, _, _)
RemapBackwards(tbl, sub_idx, i) ==
    IF i > Len(source) THEN tbl
    ELSE AssignColumn(RemapBackwards(tbl, sub_idx, i + 1), sub_idx, dest[i], source[i])

\* for i in range(len(source)), from the i-th pair on.
RECURSIVE RemapFrom(_, _, _)
RemapFrom(tbl, sub_idx, i) ==
    IF i > Len(source) THEN tbl
    ELSE RemapFrom(AssignColumn(tbl, sub_idx, dest[i], source[i]), sub_idx, i + 1)

\* Lines 136-141.
RemapSubTable(tbl, sub_idx) ==
    LET t1 == RemapFrom(tbl, sub_idx, 1)
        t2 == SetColumn(t1, sub_idx, "Term", Num(0))
        t3 == SetColumn(t2, sub_idx, "prerequisite", NaN)
    IN  SetColumn(t3, sub_idx, "Replaced Subject", NaN)

\* Lines 143-147.
FillMissing(tbl) ==
    LET t1 == SetColumn(tbl, Range(NaIndex(tbl, "Credit")), "Credit", Num(0))
    IN  SetColumn(t1, Range(NaIndex(tbl, "Grade")), "Grade", Num(0))

_unify_n_fillna(tbl0) ==
    LET no_idx == NaIndex(tbl0, "No")
        size_orig == Len(tbl0)
        d == IF Len(no_idx) > 0
             THEN DropSeparators(tbl0, no_idx)
             ELSE [tbl |-> tbl0, space_idx |-> NaIndex(tbl0, "Status"), err |-> NoError]
    IN  IF d.err # NoError THEN [tbl |-> d.tbl, err |-> d.err]
        ELSE IF Len(d.space_idx) > 0
        THEN LET sub_idx == d.space_idx[1]..(size_orig - 1)
             IN  IF ~(sub_idx \subseteq Labels(d.tbl))
                 THEN [tbl |-> d.tbl, err |-> "KeyError"]
                 ELSE [tbl |-> FillMissing(RemapSubTable(d.tbl, sub_idx)), err |-> NoError]
        ELSE [tbl |-> FillMissing(d.tbl), err |-> NoError]

(***************************************************************************)
(* Raw tables as _load_file returns them: rows of the main table, blank    *)
(* separator rows, and rows of the sub-table, whose values sit in the      *)
(* columns to the left of their own.                                       *)
(***************************************************************************)
Prereq == <<"p", "r", "e">>

MainRow ==
    "No" :> Num(1) @@ "Term" :> Num(2) @@ "Semester" :> Str(Fall2023) @@
    "Subject Code" :> Str(CSC101) @@ "prerequisite" :> Str(Prereq) @@
    "Replaced Subject" :> Str(CSC102) @@ "Subject Name" :> Str(CourseName) @@
    "Credit" :> Num(3) @@ "Grade" :> Num(4) @@ "Status" :> Str(Passed)

MainRowNoGrade ==
    [MainRow EXCEPT !["Credit"] = NaN, !["Grade"] = NaN, !["Status"] = Str(Studying)]

MainRowNoNumber == [MainRow EXCEPT !["No"] = NaN]

BlankRow == [c \in Columns |-> NaN]

SubRow ==
    "No" :> Num(1) @@ "Term" :> Str(Fall2024) @@ "Semester" :> Str(MAT102) @@
    "Subject Code" :> Str(CourseName) @@ "prerequisite" :> Num(3) @@
    "Replaced Subject" :> Num(2) @@ "Subject Name" :> Str(NotStarted) @@
    "Credit" :> NaN @@ "Grade" :> NaN @@ "Status" :> NaN

SubRowNoGrade == [SubRow EXCEPT !["prerequisite"] = NaN, !["Replaced Subject"] = NaN]

RawRowPool == {MainRow, MainRowNoGrade, MainRowNoNumber, BlankRow, SubRow, SubRowNoGrade}

RawTables == {TableOf(rows) : rows \in SeqsUpTo(RawRowPool, MaxRawRows)}

(***************************************************************************)
(* UnifySpec: open_transcript_file on any raw table.  `content` keeps the  *)
(* table as it was read; frames["transcript"] is the frame after           *)
(* _unify_n_fillna has rewritten it in place.                              *)
(***************************************************************************)
UnifyInit ==
    /\ content \in RawTables
    /\ frames = [transcript |-> <<>>, transcript_data |-> <<>>]
    /\ raised = NoError
    /\ pc = "open"
    /\ mode = "overall"
    /\ semester_name = None
    /\ exemption_subjects = <<>>
    /\ aliased = FALSE
    /\ default_exemption_list = BuiltinDefault
    /\ exemption_file = absent
    /\ gpa_score = NotCalled

open_transcript_file ==
    /\ pc = "open"
    /\ LET r == _unify_n_fillna(content)
       IN  /\ frames' = [frames EXCEPT !["transcript"] = r.tbl]
           /\ raised' = r.err
           /\ pc' = IF r.err = NoError THEN "choose_mode" ELSE "crashed"
    /\ UNCHANGED <<content, mode, semester_name, exemption_subjects, aliased,
                   default_exemption_list, exemption_file, gpa_score>>

UnifyNext == open_transcript_file

UnifySpec == UnifyInit /\ [][UnifyNext]_vars

(***************************************************************************)
(* exemption.json and the exemption editing session.                       *)
(* _load_exemption_subjects catches FileNotFoundError alone: what          *)
(* json.load raises on a file that is not JSON (json.JSONDecodeError) and  *)
(* what the subscript raises on a JSON object without the key (KeyError)   *)
(* leave check_exemption_subjects and main uncaught.                       *)
(***************************************************************************)
ValidFile(list) == [state |-> "valid", list |-> list]
InvalidJsonFile == [state |-> "invalid json", list |-> <<>>]
NoKeyFile == [state |-> "no key", list |-> <<>>]

\* Lines 275-283: the list, whether it is the module's default list object
\* itself, and the exception that escapes.
_load_exemption_subjects(file, default_list) ==
    CASE file.state = "absent" ->
            [exemption_list |-> default_list, notify |-> "default", err |-> NoError]
      [] file.state = "valid" ->
            [exemption_list |-> file.list, notify |-> "user_pref", err |-> NoError]
      [] file.state = "invalid json" ->
            [exemption_list |-> <<>>, notify |-> "", err |-> "JSONDecodeError"]
      [] OTHER ->
            [exemption_list |-> <<>>, notify |-> "", err |-> "KeyError"]

\* json.dump({'exemption_subjects': exemption_list}, writer) on a file opened 'w'
_save_exemption_subjects(exemption_list) == ValidFile(exemption_list)

\* str.upper() on the characters the inputs use.
UpperChar(ch) ==
    CASE ch = "m" -> "M" [] ch = "a" -> "A" [] ch = "t" -> "T" [] OTHER -> ch

\* subject[:3].upper() (line 398)
FirstThreeUpper(subject) ==
    LET cut == SubSeq(subject, 1, IF Len(subject) < 3 THEN Len(subject) ELSE 3)
    IN  [k \in 1..Len(cut) |-> UpperChar(cut[k])]

\* exemption_list.append(subject)
_add_exemption_subject(subject, exemption_list) == Append(exemption_list, subject)

\* exemption_list.remove(subject): the first occurrence goes; ValueError when
\* there is none, which the session's bare except swallows.
_remove_exemption_subject(subject, exemption_list) ==
    IF \E k \in 1..Len(exemption_list) : exemption_list[k] = subject
    THEN LET k == CHOOSE j \in 1..Len(exemption_list) :
                    /\ exemption_list[j] = subject
                    /\ \A h \in 1..(j - 1) : exemption_list[h] # subject
         IN  SubSeq(exemption_list, 1, k - 1) \o SubSeq(exemption_list, k + 1, Len(exemption_list))
    ELSE exemption_list

SubjectInputs == {<<>>, <<"m", "a", "t", "1", "0", "1">>, CSC}

\* What _format_semester_name can hand select_semester: a season and a year.
SemesterNames == {Fall2023, Fall2024, Spring2024}

MainTables ==
    { TableOf(<<MainRow, MainRowNoGrade>>),
      TableOf(<<MainRow, BlankRow, MainRow, SubRow>>),
      TableOf(<<MainRow, BlankRow>>) }

InitialFiles == {absent, InvalidJsonFile, NoKeyFile, ValidFile(<<>>), ValidFile(<<CSC>>)}

(***************************************************************************)
(* MainSpec: main() of calculator.py.                                      *)
(***************************************************************************)
MainInit ==
    /\ content \in MainTables
    /\ frames = [transcript |-> <<>>, transcript_data |-> <<>>]
    /\ raised = NoError
    /\ pc = "open"
    /\ mode = "overall"
    /\ semester_name = None
    /\ exemption_subjects = <<>>
    /\ aliased = FALSE
    /\ default_exemption_list = BuiltinDefault
    /\ exemption_file \in InitialFiles
    /\ gpa_score = NotCalled

choose_mode(m) ==
    /\ pc = "choose_mode"
    /\ mode' = m
    /\ IF m = "one semester"
       THEN pc' = "select_semester" /\ UNCHANGED semester_name
       ELSE pc' = "check_exemption" /\ semester_name' = None
    /\ UNCHANGED <<content, frames, raised, exemption_subjects, aliased,
                   default_exemption_list, exemption_file, gpa_score>>

select_semester(name) ==
    /\ pc = "select_semester"
    /\ semester_name' = Some(name)
    /\ pc' = "check_exemption"
    /\ UNCHANGED <<content, frames, raised, mode, exemption_subjects, aliased,
                   default_exemption_list, exemption_file, gpa_score>>

\* check_exemption_subjects, up to its first prompt.
LoadSession ==
    /\ pc = "check_exemption"
    /\ LET r == _load_exemption_subjects(exemption_file, default_exemption_list)
       IN  /\ exemption_subjects' = r.exemption_list
           /\ aliased' = (r.notify = "default")
           /\ raised' = r.err
           /\ pc' = IF r.err = NoError THEN "edit" ELSE "crashed"
    /\ UNCHANGED <<content, frames, mode, semester_name, default_exemption_list,
                   exemption_file, gpa_score>>

\* One 'add' or 'remove' of the session; the list edited is the module's
\* default list itself when that is what was loaded.
EditSession(op, input) ==
    /\ pc = "edit"
    /\ op = "add" => Len(exemption_subjects) < MaxListLen
    /\ LET subject == FirstThreeUpper(input)
           new == IF op = "add"
                  THEN _add_exemption_subject(subject, exemption_subjects)
                  ELSE _remove_exemption_subject(subject, exemption_subjects)
       IN  /\ exemption_subjects' = new
           /\ default_exemption_list' = IF aliased THEN new ELSE default_exemption_list
    /\ UNCHANGED <<content, frames, raised, pc, mode, semester_name, aliased,
                   exemption_file, gpa_score>>

\* 'ok': the session ends and the list is written back.
SaveSession ==
    /\ pc = "edit"
    /\ exemption_file' = _save_exemption_subjects(exemption_subjects)
    /\ pc' = "calculate"
    /\ UNCHANGED <<content, frames, raised, mode, semester_name, exemption_subjects,
                   aliased, default_exemption_list, gpa_score>>

\* Lines 27-28 of main; display_gpa_score formats with :.2f, which None rejects.
CalculateAndDisplay ==
    /\ pc = "calculate"
    /\ LET r == calculating_gpa(frames, "transcript", mode, exemption_subjects, semester_name)
       IN  /\ frames' = r.frames
           /\ gpa_score' = r.ret
           /\ raised' = IF r.ret = RetNone THEN "TypeError" ELSE NoError
           /\ pc' = IF r.ret = RetNone THEN "crashed" ELSE "again"
    /\ UNCHANGED <<content, mode, semester_name, exemption_subjects, aliased,
                   default_exemption_list, exemption_file>>

\* Lines 31-34 of main: cont[0] of an empty answer raises IndexError.
AnswerAgain(cont) ==
    /\ pc = "again"
    /\ IF cont = <<>>
       THEN raised' = "IndexError" /\ pc' = "crashed"
       ELSE /\ raised' = raised
            /\ pc' = IF UpperChar(cont[1]) = "N" THEN "done" ELSE "choose_mode"
    /\ UNCHANGED <<content, frames, mode, semester_name, exemption_subjects, aliased,
                   default_exemption_list, exemption_file, gpa_score>>

MainNext ==
    \/ open_transcript_file
    \/ \E m \in Modes : choose_mode(m)
    \/ \E name \in SemesterNames : select_semester(name)
    \/ LoadSession
    \/ \E op \in {"add", "remove"}, input \in SubjectInputs : EditSession(op, input)
    \/ SaveSession
    \/ CalculateAndDisplay
    \/ \E cont \in {<<>>, <<"N">>, <<"Y">>} : AnswerAgain(cont)

MainSpec == MainInit /\ [][MainNext]_vars

(***************************************************************************)
(* Properties of calculating_gpa, checked under Spec.                      *)
(***************************************************************************)
Returned == pc = "returned"

\* The records the returned score was computed from: the local frame at the
\* division of line 449; none when the call returned before it.
Contributing ==
    IF Returned /\ gpa_score.kind \in {"float", "nan", "inf"}
    THEN frames["transcript_data"] ELSE <<>>

ContributingRows == {Contributing[k] : k \in 1..Len(Contributing)}

\* sub occurs in s as a contiguous run of characters, at any position.
Contains(s, sub) ==
    \E i \in 1..(Len(s) + 1) : \E j \in (i - 1)..Len(s) : SubSeq(s, i, j) = sub

RECURSIVE WeightedOver(_, _)
WeightedOver(t, I) ==
    IF I = {} THEN 0
    ELSE LET k == CHOOSE x \in I : TRUE
         IN  t[k].row["Grade"][2] * t[k].row["Credit"][2] + WeightedOver(t, I \ {k})

RECURSIVE CreditOver(_, _)
CreditOver(t, I) ==
    IF I = {} THEN 0
    ELSE LET k == CHOOSE x \in I : TRUE
         IN  t[k].row["Credit"][2] + CreditOver(t, I \ {k})

\* The entries of the caller's transcript that are neither Studying nor Not started.
Studied(t) ==
    {k \in 1..Len(t) : t[k].row["Status"] \notin {Str(Studying), Str(NotStarted)}}

\* C1: in 'overall' mode with an empty exemption list the returned score is
\* sum(grade * credit) / sum(credit) over the records left by the status filter,
\* computed here from the caller's transcript without the code's filtering
\* steps (and the int 0 when no record is left).
C1_OverallIsWeightedAverage ==
    (Returned /\ mode = "overall" /\ exemption_subjects = <<>>) =>
        LET t == frames["transcript"]
            I == Studied(t)
        IN  IF I = {} THEN gpa_score = RetZero
            ELSE /\ gpa_score.kind \in {"float", "nan", "inf"}
                 /\ gpa_score.num = WeightedOver(t, I)
                 /\ gpa_score.den = CreditOver(t, I)
                 /\ (gpa_score.den # 0 => gpa_score.kind = "float")

\* The two-record example: grades 4.0 and 3.0 at 3 credits each give 3.5,
\* and a Studying record beside them is left out of both sums.
C1_Witness ==
    /\ Returned /\ mode = "overall" /\ exemption_subjects = <<>>
    /\ frames["transcript"] = TableOf(<<MkRow(Fall2023, CSC101, 3, 4, Passed),
                                        MkRow(Spring2024, MAT101, 3, 3, Passed),
                                        MkRow(Fall2023, CSC102, 3, 1, Studying)>>)
    /\ gpa_score.kind = "float"
    /\ 2 * gpa_score.num = 7 * gpa_score.den

\* C2: in 'one semester' mode with a semester label string L, every record
\* that contributes to the returned score has Semester exactly equal to L.
C2_OnlyLabelledSemesterContributes ==
    (Returned /\ mode = "one semester" /\ semester_name # None) =>
        \A e \in ContributingRows : e.row["Semester"] = Str(semester_name[1])

\* With a label that is not the empty string the filter of line 434 is exact.
C2_ExactMatchForNonEmptyLabel ==
    (Returned /\ mode = "one semester" /\ Truthy(semester_name)) =>
        \A e \in ContributingRows : e.row["Semester"] = Str(semester_name[1])

\* C3: no record whose Subject Code contains an exemption prefix, at any
\* position, contributes to the returned score, in either mode.
C3_NoExemptRecordContributes ==
    Returned =>
        \A k \in 1..Len(exemption_subjects) : \A e \in ContributingRows :
            ~(IsStr(e.row["Subject Code"])
              /\ Contains(e.row["Subject Code"][2], exemption_subjects[k]))

\* PMAT10 holds MAT at offset 1: it is in the transcript, MAT is exempted,
\* and a score was computed from the other records.
C3_Witness ==
    /\ Returned
    /\ \E k \in 1..Len(exemption_subjects) : exemption_subjects[k] = MAT
    /\ \E k \in 1..Len(frames["transcript"]) :
            frames["transcript"][k].row["Subject Code"] = Str(PMAT10)
    /\ gpa_score.kind = "float"

\* C4: records whose Status is Studying or Not started never contribute to
\* the returned score, in either mode and for every exemption list.
C4_UnfinishedNeverContributes ==
    \A e \in ContributingRows :
        /\ e.row["Status"] # Str(Studying)
        /\ e.row["Status"] # Str(NotStarted)

\* A score was computed in 'one semester' mode from a transcript that holds a
\* Studying and a Not started record.
C4_Witness ==
    /\ Returned
    /\ gpa_score.kind = "float"
    /\ \E k \in 1..Len(frames["transcript"]) :
            frames["transcript"][k].row["Status"] = Str(NotStarted)
    /\ \E k \in 1..Len(frames["transcript"]) :
            frames["transcript"][k].row["Status"] = Str(Studying)
    /\ mode = "one semester"

\* C5: when records remain after filtering and their credits sum to zero,
\* the call returns a defined outcome (0 or an error signal) and divides
\* nothing by the zero total.
C5_ZeroCreditIsDefined ==
    (Returned /\ gpa_score.kind # "None"
       /\ Len(frames["transcript_data"]) > 0
       /\ SumCredit(frames["transcript_data"]) = 0) =>
        gpa_score.kind \in {"zero", "error"}

\* C6: a call in 'one semester' mode without a semester label returns None,
\* for every transcript and exemption list.
C6_NoLabelReturnsNone ==
    (Returned /\ mode = "one semester" /\ semester_name = None) =>
        gpa_score = RetNone

\* The call was made without a label on a transcript with finished records
\* and a non-empty exemption list.
C6_Witness ==
    /\ Returned /\ mode = "one semester" /\ semester_name = None
    /\ Len(frames["transcript"]) > 1
    /\ Studied(frames["transcript"]) # {}
    /\ exemption_subjects # <<>>

\* C7: no call changes the caller's transcript.
C7_TranscriptNeverMutated ==
    [][frames'["transcript"] = frames["transcript"]]_vars

\* A call has filtered rows out of its own copy, while the transcript it was
\* given still holds them.
C7_Witness ==
    /\ Returned
    /\ gpa_score.kind = "float"
    /\ Len(frames["transcript_data"]) < Len(frames["transcript"])
    /\ exemption_subjects # <<>>

(***************************************************************************)
(* Properties of _unify_n_fillna, checked under UnifySpec.                 *)
(***************************************************************************)
Unified == pc = "choose_mode"

InLabels == [k \in 1..Len(content) |-> content[k].idx]
OutLabels == [k \in 1..Len(frames["transcript"]) |-> frames["transcript"][k].idx]

BlankNo == {content[k].idx : k \in {j \in 1..Len(content) : content[j].row["No"] = NaN}}
BlankStatus == {content[k].idx : k \in {j \in 1..Len(content) : content[j].row["Status"] = NaN}}

Least(S) == CHOOSE x \in S : \A y \in S : x <= y

\* The label of the first row with a blank No, or if there is none of the
\* first row with a blank Status; -1 when there is neither.
Boundary ==
    IF BlankNo # {} THEN Least(BlankNo)
    ELSE IF BlankStatus # {} THEN Least(BlankStatus)
    ELSE -1

Without(seq, S) == LET keep(x) == x \notin S IN SelectSeq(seq, keep)

\* C8 as stated: with a boundary (a blank No, or else a blank Status) the
\* output is the input rows in order minus exactly the first two rows at or
\* after the boundary; without one no row is discarded.
C8_TwoRowsDiscardedAtBoundary ==
    Unified =>
        IF Boundary >= 0
        THEN OutLabels = Without(InLabels, {Boundary, Boundary + 1})
        ELSE OutLabels = InLabels

\* C8 amended: with exactly one blank-No row and a row after it, the output is
\* the input rows in order minus that row and the next; with no blank-No row
\* nothing is discarded, blank Status or not; with a blank No in the last row
\* or in several rows the call raises KeyError.
C8_TwoRowsDiscardedAfterBlankNo ==
    pc # "open" =>
        IF BlankNo = {}
        THEN Unified /\ OutLabels = InLabels
        ELSE IF Cardinality(BlankNo) = 1 /\ Least(BlankNo) + 1 < Len(content)
        THEN /\ Unified
             /\ OutLabels = Without(InLabels, {Least(BlankNo), Least(BlankNo) + 1})
        ELSE pc = "crashed" /\ raised = "KeyError"

\* A blank row at label 1: it and the row after it are gone, the sub-table row
\* behind them is kept.
C8_Witness ==
    /\ Unified
    /\ BlankNo = {1}
    /\ InLabels = <<0, 1, 2, 3>>
    /\ OutLabels = <<0, 3>>

Remapped(r) ==
    [c \in Columns |->
        CASE c = "Status" -> r["Subject Name"]
          [] c = "Grade" -> r["Replaced Subject"]
          [] c = "Credit" -> r["prerequisite"]
          [] c = "Subject Name" -> r["Subject Code"]
          [] c = "Subject Code" -> r["Semester"]
          [] c = "Semester" -> r["Term"]
          [] c = "Term" -> Num(0)
          [] c = "prerequisite" -> NaN
          [] c = "Replaced Subject" -> NaN
          [] OTHER -> r[c]]

Filled(r) ==
    [c \in Columns |-> IF c \in {"Credit", "Grade"} /\ r[c] = NaN THEN Num(0) ELSE r[c]]

InputRow(label) == (CHOOSE e \in Range(content) : e.idx = label).row

\* C9: every row kept from the boundary on holds the simultaneous remapping
\* of its own input values, with Term 0 and prerequisite and Replaced Subject
\* blank; every row before the boundary holds its input values; in both
\* blocks a missing Credit or Grade is 0.
C9_SubTableRemapped ==
    Unified =>
        \A e \in Range(frames["transcript"]) :
            IF Boundary >= 0 /\ e.idx >= Boundary
            THEN e.row = Filled(Remapped(InputRow(e.idx)))
            ELSE e.row = Filled(InputRow(e.idx))

\* A sub-table row behind the separator rows reads as a record, its missing
\* Credit and Grade filled in, and a main-table row before them had its
\* missing Credit and Grade filled in too.
C9_Witness ==
    /\ Unified
    /\ content = TableOf(<<MainRowNoGrade, BlankRow, MainRow, SubRowNoGrade>>)
    /\ frames["transcript"][2].row =
         ("No" :> Num(1) @@ "Term" :> Num(0) @@ "Semester" :> Str(Fall2024) @@
          "Subject Code" :> Str(MAT102) @@ "prerequisite" :> NaN @@
          "Replaced Subject" :> NaN @@ "Subject Name" :> Str(CourseName) @@
          "Credit" :> Num(0) @@ "Grade" :> Num(0) @@ "Status" :> Str(NotStarted))
    /\ frames["transcript"][1].row["Grade"] = Num(0)

(***************************************************************************)
(* Properties of the exemption editing session, checked under MainSpec.    *)
(***************************************************************************)
\* C10: loading at the start of a session yields the built-in default list
\* when exemption.json is absent or unreadable and the saved list otherwise,
\* and never ends in an uncaught error.
C10_LoadYieldsDefaultOrSaved ==
    [][pc = "check_exemption" =>
        /\ pc' = "edit"
        /\ exemption_subjects' = IF exemption_file.state = "valid"
                                 THEN exemption_file.list
                                 ELSE BuiltinDefault]_vars

====
